---- MODULE Spec2Model ----
(***************************************************************************)
(* Model of the to-do application shell of src/src/App.tsx: the task list, *)
(* the new-task form draft, the busy flag, and the four kinds of HTTP      *)
(* request (GET, POST, PATCH, DELETE on /api/todo) it keeps in flight.     *)
(* Every async handler is two steps: the part before its await, which      *)
(* sends the request, and the continuation that runs when the request      *)
(* resolves.  The backend is outside the repository; it is modelled as a   *)
(* store that serves each request at some moment between send and resolve. *)
(* The date field of the form (DateField, Calendar), the overdue flag and  *)
(* the colors of the cards follow, each with its own specification.        *)
(***************************************************************************)
EXTENDS Integers, Sequences, FiniteSets, TLC

----------------------------------------------------------------------------
(* Bounds of the model *)

\* POST, PATCH and DELETE requests the user may issue in one run
MaxRequests == 4
\* POST requests the user may issue in one run of FormSpec
MaxCreates == 2

----------------------------------------------------------------------------
(* Types and constants of the program *)

\* type Category (App.tsx:6); the Thai labels are written in English here
Category == {"work", "appointment", "shopping", "personal", "idea"}

Priority == {"low", "medium", "high"}

categoryBaseColor ==
    [c \in Category |->
        CASE c = "work"        -> "#8B5FBF"
          [] c = "appointment" -> "#F472B6"
          [] c = "shopping"    -> "#34D399"
          [] c = "personal"    -> "#60A5FA"
          [] c = "idea"        -> "#FBBF24"]

\* JavaScript's null, as the deadline of a task that has none
null == "<null>"

\* String.prototype.trim on a text held as a sequence of characters
IsSpace(ch) == ch = " "

RECURSIVE trimStart(_)
trimStart(s) ==
    IF s = <<>> THEN <<>>
    ELSE IF IsSpace(Head(s)) THEN trimStart(Tail(s)) ELSE s

RECURSIVE trimEnd(_)
trimEnd(s) ==
    IF s = <<>> THEN <<>>
    ELSE IF IsSpace(s[Len(s)]) THEN trimEnd(SubSeq(s, 1, Len(s) - 1)) ELSE s

trim(s) == trimEnd(trimStart(s))

----------------------------------------------------------------------------
(* What the user can enter in the form *)

TextInputs == {<<>>, <<" ">>, <<" ", "a", " ">>}
CategoryInputs == {"work", "shopping"}
PriorityInputs == {"medium", "low"}
DeadlineInputs == {"", "2025-01-15"}
\* the one text entered in Spec, where the rest of the form keeps its defaults
PlainTextInputs == {<<"a">>}

----------------------------------------------------------------------------
VARIABLES
    todos,      \* useState<TodoItem[]>: the in-memory task list
    todoText,   \* form draft: text
    category,   \* form draft: category
    priority,   \* form draft: priority
    deadline,   \* form draft: deadline, "" when none
    loading,    \* the busy flag of the create flow
    getReq,     \* the initial load's GET request
    posts,      \* POST requests in flight
    patches,    \* PATCH requests in flight
    deletes,    \* DELETE requests in flight
    nReq,       \* POST, PATCH and DELETE requests issued so far
    db,         \* the backend's tasks, in creation order
    nextId,     \* the backend's next task id
    race,       \* per task id, the toggles racing for it (see NoRace)
    ev,         \* the handler step that produced this state
    open,       \* DateField: useState(false), whether the popover is open
    cal,        \* Calendar: its useState pair (y, m), NoCal when unmounted
    now,        \* the instant new Date() returns, in hours since the epoch
    tz,         \* the browser's time zone: local time = UTC + tz hours
    fnIn,       \* the arguments a pure helper is applied to
    fnOut,      \* what the helper returned for them
    progress,   \* useMemo: the value memoised for the todos of the last render
    hist        \* the ids a create put into the list, and those a delete took out

vars == <<todos, todoText, category, priority, deadline, loading, getReq,
          posts, patches, deletes, nReq, db, nextId, race, ev, open, cal,
          now, tz, fnIn, fnOut, progress, hist>>

widget == <<open, cal>>
clock == <<now, tz>>
pure == <<fnIn, fnOut>>

draft == <<todoText, category, priority, deadline>>
server == <<db, nextId>>

NoTask == [id |-> 0]

\* The toggles of one task id that were in flight together: several is
\* whether two of them were in flight at once, last is the record returned
\* by the latest of their successful responses (NoTask when none yet).
NoRace == [several |-> FALSE, last |-> NoTask]

InFlight(id) == {r \in patches : r.id = id}

\* op: the step taken; confirmed: the answer of confirm(), where the step
\* asks; sent: whether the step sent a request
Event(op, confirmed, sent) == [op |-> op, confirmed |-> confirmed, sent |-> sent]

\* a request id not used by a request of S
FreshRid(S) == CHOOSE n \in 1..(Cardinality(S) + 1) : \A r \in S : r.rid # n

\* whether the list holds an entry of that id
HasId(list, id) == \E i \in DOMAIN list : list[i].id = id

\* created: the ids a successful create prepended to the list and no
\* successful delete has taken out since; deleted: the ids of which a
\* successful delete removed an entry from the list
NoHist == [created |-> {}, deleted |-> {}]

\* the history after the DELETE of that id resolved
Deleted(id) ==
    [created |-> hist.created \ {id},
     deleted |-> IF HasId(todos, id) THEN hist.deleted \cup {id}
                 ELSE hist.deleted]

----------------------------------------------------------------------------
(* The progress indicator.  done / todos.length * 100 is computed in        *)
(* doubles; for lists of fewer than 40 tasks the double is within 1e-13 of  *)
(* the exact fraction and on the same side of every half, so that the       *)
(* integer arithmetic below returns what Math.round returns.  (The first    *)
(* list where they part is 23 done of 40: 57.49999999999999 in doubles.)    *)

\* Math.round of a fraction that is not negative
Round(num, den) == (2 * num + den) \div (2 * den)

\* the number of done tasks: todos.filter((t) => t.isDone).length
DoneCount(list) == Cardinality({i \in DOMAIN list : list[i].isDone})

\* the memoised callback with Math.floor in the place of Math.round
progressMemo_Truncates(list) ==
    IF Len(list) = 0 THEN 0
    ELSE (DoneCount(list) * 100) \div Len(list)

\* the callback of useMemo(.., [todos]), run by the render that follows
\* every setTodos
progressMemo(list) ==
    IF Len(list) = 0 THEN 0
    ELSE Round(DoneCount(list) * 100, Len(list))

----------------------------------------------------------------------------
(* Dates.  A Date is an instant, kept in whole hours since                  *)
(* 1970-01-01T00:00Z.  new Date(y, m, d) and the getters read and write it  *)
(* in local time, tz hours ahead of UTC; new Date("YYYY-MM-DD") reads the   *)
(* string as midnight UTC.  Daylight saving is not modelled.                *)

HoursPerDay == 24

\* the day number of 1 January of year y (ECMAScript DayFromYear)
DayFromYear(y) ==
    365 * (y - 1970) + ((y - 1969) \div 4) - ((y - 1901) \div 100)
        + ((y - 1601) \div 400)

DaysInYear(y) == DayFromYear(y + 1) - DayFromYear(y)

\* the days of a common year before its month m (0..12)
CommonDaysBefore == <<0, 31, 59, 90, 120, 151, 181, 212, 243, 273, 304, 334, 365>>

\* 1 in a leap year, 0 in a common year (ECMAScript InLeapYear)
InLeapYear(y) == DaysInYear(y) - 365

\* the days before month m (0..12) of a year, leap (1) or common (0)
DaysBefore(m, leap) == CommonDaysBefore[m + 1] + (IF m >= 2 THEN leap ELSE 0)

\* the days of year y before its month m (0..12)
DaysBeforeMonth(y, m) == DaysBefore(m, InLeapYear(y))

\* ECMAScript MakeDay: a month outside 0..11 carries into the year, and a
\* day outside the month carries into the neighbouring month
MakeDay(y, m, d) ==
    LET ym == y + (m \div 12)
        mn == m % 12
    IN DayFromYear(ym) + DaysBeforeMonth(ym, mn) + d - 1

YearFromDay(day) ==
    LET a == 1970 + (day \div 365)
        b == 1970 + (day \div 366)
    IN CHOOSE y \in ((IF a < b THEN a ELSE b) - 1)..((IF a < b THEN b ELSE a) + 1) :
           DayFromYear(y) <= day /\ day < DayFromYear(y + 1)

MonthFromDay(day) ==
    LET y == YearFromDay(day)
        dayInYear == day - DayFromYear(y)
        leap == InLeapYear(y)
    IN CHOOSE m \in 0..11 :
           DaysBefore(m, leap) <= dayInYear /\ dayInYear < DaysBefore(m + 1, leap)

DateFromDay(day) ==
    LET y == YearFromDay(day)
    IN day - DayFromYear(y) - DaysBeforeMonth(y, MonthFromDay(day)) + 1

\* 1 January 1970 was a Thursday; 0 is Sunday
WeekDay(day) == (day + 4) % 7

\* new Date(y, m, d): local midnight of that day
NewDate(y, m, d) ==
    LET yr == IF 0 <= y /\ y <= 99 THEN 1900 + y ELSE y
    IN MakeDay(yr, m, d) * HoursPerDay - tz

\* the local calendar day an instant falls on
LocalDay(t) == (t + tz) \div HoursPerDay

\* the local year, month (0..11) and day of the month of an instant
LocalFields(t) ==
    LET day == LocalDay(t)
        y == YearFromDay(day)
        m == MonthFromDay(day)
    IN [y |-> y, m |-> m, d |-> day - DayFromYear(y) - DaysBeforeMonth(y, m) + 1]

getFullYear(t) == YearFromDay(LocalDay(t))
getMonth(t) == MonthFromDay(LocalDay(t))
getDate(t) == DateFromDay(LocalDay(t))
getDay(t) == WeekDay(LocalDay(t))

Digit(c) ==
    CASE c = "0" -> 0 [] c = "1" -> 1 [] c = "2" -> 2 [] c = "3" -> 3
      [] c = "4" -> 4 [] c = "5" -> 5 [] c = "6" -> 6 [] c = "7" -> 7
      [] c = "8" -> 8 [] c = "9" -> 9

RECURSIVE ParseDigits(_)
ParseDigits(s) ==
    IF Len(s) = 0 THEN 0
    ELSE ParseDigits(SubSeq(s, 1, Len(s) - 1)) * 10
             + Digit(SubSeq(s, Len(s), Len(s)))

\* new Date(s) for a date-only string "YYYY-MM-DD": midnight UTC
ParseDate(s) ==
    MakeDay(ParseDigits(SubSeq(s, 1, 4)), ParseDigits(SubSeq(s, 6, 7)) - 1,
            ParseDigits(SubSeq(s, 9, 10))) * HoursPerDay

pad2(n) == IF n < 10 THEN "0" \o ToString(n) ELSE ToString(n)

\* toIsoDate without pad2
toIsoDate_NoPad(t) ==
    LET f == LocalFields(t)
    IN ToString(f.y) \o "-" \o ToString(f.m + 1) \o "-" \o ToString(f.d)

toIsoDate(t) ==
    LET f == LocalFields(t)
    IN ToString(f.y) \o "-" \o pad2(f.m + 1) \o "-" \o pad2(f.d)

----------------------------------------------------------------------------
(* The date field and its calendar *)

\* the Calendar component's state when the popover is not rendered
NoCal == [y |-> 0, m |-> 0]

\* the pure helpers are not being applied
NoArgs == <<>>

\* a browser in Thailand at noon UTC of 15 January 2025
DefaultTz == 7
DefaultNow == MakeDay(2025, 0, 15) * HoursPerDay + 12

\* whether DateField renders the popover, with value and disabled as given
Shown(isOpen, disabled) == isOpen /\ ~disabled

\* Calendar's two useState initialisers, and its effect on [value], at mount
CalendarMount(value) ==
    LET base == IF value # "" THEN ParseDate(value) ELSE now
        f == LocalFields(base)
    IN [y |-> f.y, m |-> f.m]

\* Calendar's state after a render in which the popover is open or not as
\* given and the field has the given disabled flag and value: the component
\* keeps its state while it stays mounted, is initialised when it mounts
CalendarAfter(isOpen, disabled, value) ==
    IF ~Shown(isOpen, disabled) THEN NoCal
    ELSE IF Shown(open, loading) THEN cal
    ELSE CalendarMount(value)

\* the state of App after construction: the mount effect has sent the GET
AppInit ==
    /\ todos = <<>>
    /\ todoText = <<>>
    /\ category = "work"
    /\ priority = "medium"
    /\ deadline = ""
    /\ loading = FALSE
    /\ getReq = [st |-> "sent", data |-> <<>>]
    /\ posts = {}
    /\ patches = {}
    /\ deletes = {}
    /\ nReq = 0
    /\ db = <<>>
    /\ nextId = 1
    /\ race = [i \in 1..MaxRequests |-> NoRace]
    /\ ev = Event("mount", FALSE, TRUE)
    /\ open = FALSE
    /\ cal = NoCal
    /\ progress = progressMemo(todos)
    /\ hist = NoHist

Init ==
    /\ AppInit
    /\ now = DefaultNow
    /\ tz = DefaultTz
    /\ fnIn = NoArgs
    /\ fnOut = NoArgs

----------------------------------------------------------------------------
(* The form controls; all are disabled while loading *)

SetTodoText(t) ==
    /\ ~loading
    /\ todoText' = t
    /\ ev' = Event("input", FALSE, FALSE)
    /\ UNCHANGED <<progress, hist>>
    /\ UNCHANGED <<widget, clock, pure>>
    /\ UNCHANGED <<todos, category, priority, deadline, loading, getReq, posts,
                   patches, deletes, nReq, db, nextId, race>>

SetCategory(c) ==
    /\ ~loading
    /\ category' = c
    /\ ev' = Event("input", FALSE, FALSE)
    /\ UNCHANGED <<progress, hist>>
    /\ UNCHANGED <<widget, clock, pure>>
    /\ UNCHANGED <<todos, todoText, priority, deadline, loading, getReq, posts,
                   patches, deletes, nReq, db, nextId, race>>

SetPriority(p) ==
    /\ ~loading
    /\ priority' = p
    /\ ev' = Event("input", FALSE, FALSE)
    /\ UNCHANGED <<progress, hist>>
    /\ UNCHANGED <<widget, clock, pure>>
    /\ UNCHANGED <<todos, todoText, category, deadline, loading, getReq, posts,
                   patches, deletes, nReq, db, nextId, race>>

SetDeadline(d) ==
    /\ ~loading
    /\ deadline' = d
    /\ ev' = Event("input", FALSE, FALSE)
    /\ UNCHANGED <<progress, hist>>
    /\ UNCHANGED <<widget, clock, pure>>
    /\ UNCHANGED <<todos, todoText, category, priority, loading, getReq, posts,
                   patches, deletes, nReq, db, nextId, race>>

----------------------------------------------------------------------------
(* The initial load: fetchTodos, called once by the mount effect *)

\* the backend answers GET /todo with its tasks as they are at that moment
ServeGet ==
    /\ getReq.st = "sent"
    /\ getReq' = [st |-> "served", data |-> db]
    /\ ev' = Event("backend", FALSE, FALSE)
    /\ UNCHANGED <<progress, hist>>
    /\ UNCHANGED <<widget, clock, pure>>
    /\ UNCHANGED <<todos, draft, loading, posts, patches, deletes, nReq,
                   server, race>>

\* await mockApi.get() resolves: setTodos(data)
fetchTodosOk ==
    /\ getReq.st = "served"
    /\ todos' = getReq.data
    /\ getReq' = [st |-> "done", data |-> <<>>]
    /\ ev' = Event("fetchTodosOk", FALSE, FALSE)
    /\ progress' = progressMemo(todos')
    /\ UNCHANGED hist
    /\ UNCHANGED <<widget, clock, pure>>
    /\ UNCHANGED <<draft, loading, posts, patches, deletes, nReq, server,
                   race>>

\* await mockApi.get() throws (non-2xx or transport error): setTodos([])
fetchTodosFail ==
    /\ getReq.st \in {"sent", "served"}
    /\ todos' = <<>>
    /\ getReq' = [st |-> "done", data |-> <<>>]
    /\ ev' = Event("fetchTodosFail", FALSE, FALSE)
    /\ progress' = progressMemo(todos')
    /\ UNCHANGED hist
    /\ UNCHANGED <<widget, clock, pure>>
    /\ UNCHANGED <<draft, loading, posts, patches, deletes, nReq, server,
                   race>>

----------------------------------------------------------------------------
(* The add flow: addTodo, from the add button or the Enter key *)

Payload(text) ==
    [todoText |-> text,
     category |-> category,
     priority |-> priority,
     deadline |-> IF deadline = "" THEN null ELSE deadline,
     color    |-> categoryBaseColor[category],
     isDone   |-> FALSE]

PostRequest(text) ==
    [rid |-> FreshRid(posts), payload |-> Payload(text), draft |-> draft,
     st |-> "sent", resp |-> NoTask]

\* addTodo without the loading half of its guard
addTodo_NoBusyGuard ==
    LET text == trim(todoText) IN
    IF text = <<>>
    THEN /\ ev' = Event("addTodo", FALSE, FALSE)
         /\ UNCHANGED <<progress, hist>>
         /\ UNCHANGED <<widget, clock, pure>>
         /\ UNCHANGED <<todos, draft, loading, getReq, posts, patches, deletes,
                        nReq, server, race>>
    ELSE /\ nReq < MaxRequests
         /\ loading' = TRUE
         /\ posts' = posts \cup {PostRequest(text)}
         /\ nReq' = nReq + 1
         /\ ev' = Event("addTodo", FALSE, TRUE)
         /\ UNCHANGED <<progress, hist>>
         /\ cal' = CalendarAfter(open, TRUE, deadline)
         /\ UNCHANGED <<open, clock, pure>>
         /\ UNCHANGED <<todos, draft, getReq, patches, deletes, server,
                        race>>

\* addTodo testing the text as typed, not trimmed
addTodo_NoTrim ==
    LET text == todoText IN
    IF text = <<>> \/ loading
    THEN /\ ev' = Event("addTodo", FALSE, FALSE)
         /\ UNCHANGED <<progress, hist>>
         /\ UNCHANGED <<widget, clock, pure>>
         /\ UNCHANGED <<todos, draft, loading, getReq, posts, patches, deletes,
                        nReq, server, race>>
    ELSE /\ nReq < MaxRequests
         /\ loading' = TRUE
         /\ posts' = posts \cup {PostRequest(text)}
         /\ nReq' = nReq + 1
         /\ ev' = Event("addTodo", FALSE, TRUE)
         /\ UNCHANGED <<progress, hist>>
         /\ cal' = CalendarAfter(open, TRUE, deadline)
         /\ UNCHANGED <<open, clock, pure>>
         /\ UNCHANGED <<todos, draft, getReq, patches, deletes, server,
                        race>>

\* the handler up to its await: the guard, setLoading(true), the POST
addTodo ==
    LET text == trim(todoText) IN
    IF text = <<>> \/ loading
    THEN /\ ev' = Event("addTodo", FALSE, FALSE)
         /\ UNCHANGED <<progress, hist>>
         /\ UNCHANGED <<widget, clock, pure>>
         /\ UNCHANGED <<todos, draft, loading, getReq, posts, patches, deletes,
                        nReq, server, race>>
    ELSE /\ nReq < MaxRequests
         /\ loading' = TRUE
         /\ posts' = posts \cup {PostRequest(text)}
         /\ nReq' = nReq + 1
         /\ ev' = Event("addTodo", FALSE, TRUE)
         /\ UNCHANGED <<progress, hist>>
         /\ cal' = CalendarAfter(open, TRUE, deadline)
         /\ UNCHANGED <<open, clock, pure>>
         /\ UNCHANGED <<todos, draft, getReq, patches, deletes, server,
                        race>>

\* the backend creates the task: it assigns the id and the timestamp
\* (updatedAt is kept as the number of updates of the record; createdAt,
\* which nothing but the display reads, is left out)
ServePost(r) ==
    /\ r \in posts
    /\ r.st = "sent"
    /\ LET task == r.payload @@ [id |-> nextId, updatedAt |-> 0]
       IN /\ db' = Append(db, task)
          /\ posts' = (posts \ {r}) \cup {[r EXCEPT !.st = "served", !.resp = task]}
    /\ nextId' = nextId + 1
    /\ ev' = Event("backend", FALSE, FALSE)
    /\ UNCHANGED <<progress, hist>>
    /\ UNCHANGED <<widget, clock, pure>>
    /\ UNCHANGED <<todos, draft, loading, getReq, patches, deletes, nReq,
                   race>>

\* addTodoOk appending the new task instead of prepending it
addTodoOk_Append(r) ==
    /\ r \in posts
    /\ r.st = "served"
    /\ todos' = Append(todos, r.resp)
    /\ todoText' = <<>>
    /\ category' = "work"
    /\ priority' = "medium"
    /\ deadline' = ""
    /\ loading' = FALSE
    /\ posts' = posts \ {r}
    /\ ev' = Event("addTodoOk", FALSE, FALSE)
    /\ progress' = progressMemo(todos')
    /\ hist' = [hist EXCEPT !.created = @ \cup {r.resp.id}]
    /\ cal' = CalendarAfter(open, FALSE, "")
    /\ UNCHANGED <<open, clock, pure>>
    /\ UNCHANGED <<getReq, patches, deletes, nReq, server, race>>

\* await mockApi.post() resolves: prepend, reset the form, clear busy
addTodoOk(r) ==
    /\ r \in posts
    /\ r.st = "served"
    /\ todos' = <<r.resp>> \o todos
    /\ todoText' = <<>>
    /\ category' = "work"
    /\ priority' = "medium"
    /\ deadline' = ""
    /\ loading' = FALSE
    /\ posts' = posts \ {r}
    /\ ev' = Event("addTodoOk", FALSE, FALSE)
    /\ progress' = progressMemo(todos')
    /\ hist' = [hist EXCEPT !.created = @ \cup {r.resp.id}]
    /\ cal' = CalendarAfter(open, FALSE, "")
    /\ UNCHANGED <<open, clock, pure>>
    /\ UNCHANGED <<getReq, patches, deletes, nReq, server, race>>

\* addTodoFail clearing the text as the success path does
addTodoFail_ClearsText(r) ==
    /\ r \in posts
    /\ loading' = FALSE
    /\ posts' = posts \ {r}
    /\ todoText' = <<>>
    /\ ev' = Event("addTodoFail", FALSE, FALSE)
    /\ UNCHANGED <<progress, hist>>
    /\ cal' = CalendarAfter(open, FALSE, deadline)
    /\ UNCHANGED <<open, clock, pure>>
    /\ UNCHANGED <<todos, category, priority, deadline, getReq, patches,
                   deletes, nReq, server, race>>

\* addTodoFail with setLoading(false) on the success path only
addTodoFail_StaysBusy(r) ==
    /\ r \in posts
    /\ posts' = posts \ {r}
    /\ ev' = Event("addTodoFail", FALSE, FALSE)
    /\ UNCHANGED <<progress, hist>>
    /\ cal' = CalendarAfter(open, loading, deadline)
    /\ UNCHANGED <<open, clock, pure>>
    /\ UNCHANGED <<todos, draft, loading, getReq, patches, deletes, nReq,
                   server, race>>

\* await mockApi.post() throws: alert, clear busy
addTodoFail(r) ==
    /\ r \in posts
    /\ loading' = FALSE
    /\ posts' = posts \ {r}
    /\ ev' = Event("addTodoFail", FALSE, FALSE)
    /\ UNCHANGED <<progress, hist>>
    /\ cal' = CalendarAfter(open, FALSE, deadline)
    /\ UNCHANGED <<open, clock, pure>>
    /\ UNCHANGED <<todos, draft, getReq, patches, deletes, nReq, server,
                   race>>

----------------------------------------------------------------------------
(* The toggle flow: toggleDone(todo), from a card's checkbox *)

PatchRequest(todo) ==
    [rid |-> FreshRid(patches), id |-> todo.id, isDone |-> ~todo.isDone,
     st |-> "sent", resp |-> NoTask]

\* toggleDone flipping the entry at once, before the backend answers
toggleDone_Optimistic(i) ==
    /\ i \in DOMAIN todos
    /\ nReq < MaxRequests
    /\ todos' = [todos EXCEPT ![i].isDone = ~todos[i].isDone]
    /\ patches' = patches \cup {PatchRequest(todos[i])}
    /\ nReq' = nReq + 1
    /\ race' = [race EXCEPT ![todos[i].id] =
                    IF InFlight(todos[i].id) = {} THEN NoRace
                    ELSE [@ EXCEPT !.several = TRUE]]
    /\ ev' = Event("toggleDone", FALSE, TRUE)
    /\ progress' = progressMemo(todos')
    /\ UNCHANGED hist
    /\ UNCHANGED <<widget, clock, pure>>
    /\ UNCHANGED <<draft, loading, getReq, posts, deletes, server>>

\* the handler up to its await: the PATCH carries the negation of the
\* isDone of the entry as it was rendered
toggleDone(i) ==
    /\ i \in DOMAIN todos
    /\ nReq < MaxRequests
    /\ patches' = patches \cup {PatchRequest(todos[i])}
    /\ nReq' = nReq + 1
    /\ race' = [race EXCEPT ![todos[i].id] =
                    IF InFlight(todos[i].id) = {} THEN NoRace
                    ELSE [@ EXCEPT !.several = TRUE]]
    /\ ev' = Event("toggleDone", FALSE, TRUE)
    /\ UNCHANGED <<progress, hist>>
    /\ UNCHANGED <<widget, clock, pure>>
    /\ UNCHANGED <<todos, draft, loading, getReq, posts, deletes, server>>

\* the backend updates the one field of the task and returns the record;
\* a PATCH of a task it no longer has is never served (it can only fail)
ServePatch(r) ==
    /\ r \in patches
    /\ r.st = "sent"
    /\ \E k \in DOMAIN db :
         /\ db[k].id = r.id
         /\ LET updated == [db[k] EXCEPT !.isDone = r.isDone,
                                         !.updatedAt = @ + 1]
            IN /\ db' = [db EXCEPT ![k] = updated]
               /\ patches' = (patches \ {r}) \cup
                             {[r EXCEPT !.st = "served", !.resp = updated]}
    /\ ev' = Event("backend", FALSE, FALSE)
    /\ UNCHANGED <<progress, hist>>
    /\ UNCHANGED <<widget, clock, pure>>
    /\ UNCHANGED <<todos, draft, loading, getReq, posts, deletes, nReq,
                   nextId, race>>

\* await mockApi.patch() resolves: prev.map(t => t.id === todo.id ? updated : t)
toggleDoneOk(r) ==
    /\ r \in patches
    /\ r.st = "served"
    /\ todos' = [i \in DOMAIN todos |->
                    IF todos[i].id = r.id THEN r.resp ELSE todos[i]]
    /\ patches' = patches \ {r}
    /\ race' = [race EXCEPT ![r.id].last = r.resp]
    /\ ev' = Event("toggleDoneOk", FALSE, FALSE)
    /\ progress' = progressMemo(todos')
    /\ UNCHANGED hist
    /\ UNCHANGED <<widget, clock, pure>>
    /\ UNCHANGED <<draft, loading, getReq, posts, deletes, nReq, server>>

\* await mockApi.patch() throws: alert
toggleDoneFail(r) ==
    /\ r \in patches
    /\ patches' = patches \ {r}
    /\ ev' = Event("toggleDoneFail", FALSE, FALSE)
    /\ UNCHANGED <<progress, hist>>
    /\ UNCHANGED <<widget, clock, pure>>
    /\ UNCHANGED <<todos, draft, loading, getReq, posts, deletes, nReq,
                   server, race>>

----------------------------------------------------------------------------
(* The delete flow: deleteTodo(id), from a card's delete button *)

DeleteRequest(id) == [rid |-> FreshRid(deletes), id |-> id, st |-> "sent"]

\* deleteTodo sending the DELETE whatever confirm() answers
deleteTodo_NoConfirm(i, confirmed) ==
    /\ i \in DOMAIN todos
    /\ nReq < MaxRequests
    /\ deletes' = deletes \cup {DeleteRequest(todos[i].id)}
    /\ nReq' = nReq + 1
    /\ ev' = Event("deleteTodo", confirmed, TRUE)
    /\ UNCHANGED <<progress, hist>>
    /\ UNCHANGED <<widget, clock, pure>>
    /\ UNCHANGED <<todos, draft, loading, getReq, posts, patches, server,
                   race>>

\* the handler up to its await; confirmed is the answer of confirm()
deleteTodo(i, confirmed) ==
    /\ i \in DOMAIN todos
    /\ IF ~confirmed
       THEN /\ ev' = Event("deleteTodo", confirmed, FALSE)
            /\ UNCHANGED <<progress, hist>>
            /\ UNCHANGED <<widget, clock, pure>>
            /\ UNCHANGED <<todos, draft, loading, getReq, posts, patches,
                           deletes, nReq, server, race>>
       ELSE /\ nReq < MaxRequests
            /\ deletes' = deletes \cup {DeleteRequest(todos[i].id)}
            /\ nReq' = nReq + 1
            /\ ev' = Event("deleteTodo", confirmed, TRUE)
            /\ UNCHANGED <<progress, hist>>
            /\ UNCHANGED <<widget, clock, pure>>
            /\ UNCHANGED <<todos, draft, loading, getReq, posts, patches,
                           server, race>>

\* the backend drops the task with that id
ServeDelete(r) ==
    /\ r \in deletes
    /\ r.st = "sent"
    /\ db' = SelectSeq(db, LAMBDA t : t.id # r.id)
    /\ deletes' = (deletes \ {r}) \cup {[r EXCEPT !.st = "served"]}
    /\ ev' = Event("backend", FALSE, FALSE)
    /\ UNCHANGED <<progress, hist>>
    /\ UNCHANGED <<widget, clock, pure>>
    /\ UNCHANGED <<todos, draft, loading, getReq, posts, patches, nReq,
                   nextId, race>>

\* deleteTodoOk keeping only the entries after the deleted one
deleteTodoOk_CutsList(r) ==
    /\ r \in deletes
    /\ r.st = "served"
    /\ todos' = SelectSeq(todos, LAMBDA t : t.id < r.id)
    /\ deletes' = deletes \ {r}
    /\ ev' = Event("deleteTodoOk", FALSE, FALSE)
    /\ progress' = progressMemo(todos')
    /\ hist' = Deleted(r.id)
    /\ UNCHANGED <<widget, clock, pure>>
    /\ UNCHANGED <<draft, loading, getReq, posts, patches, nReq, server,
                   race>>

\* await mockApi.delete() resolves: prev.filter(t => t.id !== id)
deleteTodoOk(r) ==
    /\ r \in deletes
    /\ r.st = "served"
    /\ todos' = SelectSeq(todos, LAMBDA t : t.id # r.id)
    /\ deletes' = deletes \ {r}
    /\ ev' = Event("deleteTodoOk", FALSE, FALSE)
    /\ progress' = progressMemo(todos')
    /\ hist' = Deleted(r.id)
    /\ UNCHANGED <<widget, clock, pure>>
    /\ UNCHANGED <<draft, loading, getReq, posts, patches, nReq, server,
                   race>>

\* await mockApi.delete() throws: alert
deleteTodoFail(r) ==
    /\ r \in deletes
    /\ deletes' = deletes \ {r}
    /\ ev' = Event("deleteTodoFail", FALSE, FALSE)
    /\ UNCHANGED <<progress, hist>>
    /\ UNCHANGED <<widget, clock, pure>>
    /\ UNCHANGED <<todos, draft, loading, getReq, posts, patches, nReq,
                   server, race>>

----------------------------------------------------------------------------
\* The load and the three flows
Flows ==
    \/ ServeGet
    \/ fetchTodosOk
    \/ fetchTodosFail
    \/ addTodo
    \/ \E r \in posts : ServePost(r)
    \/ \E r \in posts : addTodoOk(r)
    \/ \E r \in posts : addTodoFail(r)
    \/ \E i \in DOMAIN todos : toggleDone(i)
    \/ \E r \in patches : ServePatch(r)
    \/ \E r \in patches : toggleDoneOk(r)
    \/ \E r \in patches : toggleDoneFail(r)
    \/ \E i \in DOMAIN todos, confirmed \in BOOLEAN : deleteTodo(i, confirmed)
    \/ \E r \in deletes : ServeDelete(r)
    \/ \E r \in deletes : deleteTodoOk(r)
    \/ \E r \in deletes : deleteTodoFail(r)

\* Spec: every flow, with a form of which only the text is edited
Next ==
    \/ \E t \in PlainTextInputs : SetTodoText(t)
    \/ Flows

Spec == Init /\ [][Next]_vars

\* FormSpec: the whole form and the create flow
FormNext ==
    \/ \E t \in TextInputs : SetTodoText(t)
    \/ \E c \in CategoryInputs : SetCategory(c)
    \/ \E p \in PriorityInputs : SetPriority(p)
    \/ \E d \in DeadlineInputs : SetDeadline(d)
    \/ addTodo /\ nReq' <= MaxCreates
    \/ \E r \in posts : ServePost(r)
    \/ \E r \in posts : addTodoOk(r)
    \/ \E r \in posts : addTodoFail(r)

FormSpec == Init /\ [][FormNext]_vars

----------------------------------------------------------------------------
(* The create flow *)

\* C1: at most one POST is in flight at any time, and an add action taken
\* while a create is outstanding sends nothing.
C1_AtMostOneCreateInFlight ==
    /\ [](Cardinality(posts) <= 1)
    /\ [][(ev'.op = "addTodo" /\ posts # {}) =>
            (posts' = posts /\ nReq' = nReq)]_vars

\* an add action, with text in the form, was taken during a create
C1_Witness ==
    /\ ev.op = "addTodo"
    /\ ~ev.sent
    /\ trim(todoText) # <<>>
    /\ Cardinality(posts) = 1

DraftDefaults == <<(<<>>), "work", "medium", "">>

\* C5: the draft sent carries the trimmed text, isDone = false, the base
\* color of the chosen category and a null deadline when none was chosen;
\* when the create succeeds the returned record becomes the first entry,
\* the earlier entries follow in their order, and the draft is reset.
C5_CreatePrependsAndResets ==
    [][/\ (ev'.op = "addTodo" /\ ev'.sent) =>
            \E r \in posts' \ posts :
               /\ r.payload.todoText = trim(todoText)
               /\ r.payload.todoText # <<>>
               /\ r.payload.isDone = FALSE
               /\ r.payload.category = category
               /\ r.payload.priority = priority
               /\ r.payload.color = categoryBaseColor[category]
               /\ (deadline = "") => (r.payload.deadline = null)
               /\ (deadline # "") => (r.payload.deadline = deadline)
       /\ (ev'.op = "addTodoOk") =>
            \E r \in posts \ posts' :
               /\ Len(todos') = Len(todos) + 1
               /\ todos'[1] = r.resp
               /\ \A i \in DOMAIN todos : todos'[i + 1] = todos[i]
               /\ draft' = DraftDefaults]_vars

\* a create of a shopping task without deadline, typed with blanks around
\* the text, succeeded when the list already held a task
C5_Witness ==
    /\ ev.op = "addTodoOk"
    /\ Len(todos) >= 2
    /\ todos[1].todoText = <<"a">>
    /\ todos[1].category = "shopping"
    /\ todos[1].color = "#34D399"
    /\ todos[1].deadline = null
    /\ draft = DraftDefaults

\* C6: an add action taken while the text is empty or only whitespace sends
\* no request and leaves the list, the draft and the busy flag unchanged.
C6_BlankAddIsNoOp ==
    [][(ev'.op = "addTodo" /\ \A k \in DOMAIN todoText : todoText[k] = " ") =>
            /\ posts' = posts /\ patches' = patches /\ deletes' = deletes
            /\ getReq' = getReq /\ server' = server
            /\ todos' = todos /\ draft' = draft /\ loading' = loading]_vars

\* an add action was taken on a text of one blank, with no create in flight
C6_Witness ==
    /\ ev.op = "addTodo"
    /\ todoText = <<" ">>
    /\ ~loading

\* C7: when a create fails, the list is unchanged and the draft keeps the
\* values it had when the add was submitted.
C7_FailedCreateKeepsListAndDraft ==
    [][(ev'.op = "addTodoFail") =>
            /\ todos' = todos
            /\ \E r \in posts \ posts' : draft' = r.draft]_vars

\* a create failed, for a draft off its defaults and a list holding a task
C7_Witness ==
    /\ ev.op = "addTodoFail"
    /\ todoText = <<" ", "a", " ">>
    /\ category = "shopping"
    /\ priority = "low"
    /\ deadline = "2025-01-15"
    /\ Len(todos) = 1

\* C8: the busy flag is true exactly while a create is in flight: the step
\* that resolves the create, successfully or not, clears it, and an add
\* action with text taken when no create is in flight sends a create.
C8_BusyExactlyWhileCreateInFlight ==
    /\ [](loading <=> posts # {})
    /\ [][/\ (ev'.op \in {"addTodoOk", "addTodoFail"}) => ~loading'
          /\ (ev'.op = "addTodo" /\ posts = {} /\ trim(todoText) # <<>>) =>
                (Cardinality(posts') = 1 /\ loading')]_vars

\* a second create was sent after the first one failed
C8_Witness ==
    /\ ev.op = "addTodo"
    /\ ev.sent
    /\ nReq = 2
    /\ todos = <<>>

----------------------------------------------------------------------------
(* The toggle flow *)

\* C2: issuing a toggle leaves the list as it is; a successful response
\* replaces the entries of that id by the returned record and nothing else;
\* a failed response leaves the list as it is.
C2_ToggleNotOptimistic ==
    [][/\ (ev'.op = "toggleDone") => (todos' = todos)
       /\ (ev'.op = "toggleDoneOk") =>
            \E r \in patches \ patches' :
               /\ Len(todos') = Len(todos)
               /\ \A i \in DOMAIN todos :
                     /\ (todos[i].id = r.id) => (todos'[i] = r.resp)
                     /\ (todos[i].id # r.id) => (todos'[i] = todos[i])
       /\ (ev'.op = "toggleDoneFail") => (todos' = todos)]_vars

\* a toggle to done was confirmed by the backend and is now displayed
C2_Witness ==
    /\ ev.op = "toggleDoneOk"
    /\ \E i \in DOMAIN todos :
          /\ todos[i].isDone
          /\ todos[i].updatedAt = 1
          /\ todos[i] = race[todos[i].id].last

\* C3: when several toggles of one task id were in flight at once, then at
\* the step that resolves the last of them the displayed entries of that id
\* are the record returned by the latest successful response among them.
C3_LastResponseWins ==
    [][\A id \in DOMAIN race :
          (/\ InFlight(id) # {}
           /\ InFlight(id)' = {}
           /\ race'[id].several
           /\ race'[id].last # NoTask)
          => \A i \in DOMAIN todos' :
                (todos'[i].id = id) => (todos'[i] = race'[id].last)]_vars

\* C4: no two entries of the list have the same id.
C4_UniqueIds ==
    \A i, j \in DOMAIN todos : (i # j) => (todos[i].id # todos[j].id)

----------------------------------------------------------------------------
(* The delete flow *)

RECURSIVE Without(_, _)
\* seq without its entries of that id, the others in their order
Without(seq, id) ==
    IF seq = <<>> THEN <<>>
    ELSE IF Head(seq).id = id THEN Without(Tail(seq), id)
         ELSE <<Head(seq)>> \o Without(Tail(seq), id)

\* C9: a delete action the user does not confirm sends nothing and leaves
\* the list unchanged; a DELETE is sent by a confirmed delete action only.
C9_DeleteNeedsConfirmation ==
    [][/\ (ev'.op = "deleteTodo" /\ ~ev'.confirmed) =>
            /\ deletes' = deletes /\ posts' = posts /\ patches' = patches
            /\ getReq' = getReq /\ server' = server /\ todos' = todos
       /\ (Cardinality(deletes') > Cardinality(deletes)) =>
            (ev'.op = "deleteTodo" /\ ev'.confirmed)]_vars

\* the user declined the deletion of a displayed task
C9_Witness ==
    /\ ev.op = "deleteTodo"
    /\ ~ev.confirmed
    /\ Len(todos) >= 1
    /\ deletes = {}

\* C10: a successful delete removes exactly the entries of that id, the
\* others staying as they were and in their order; a failed delete leaves
\* the list unchanged.
C10_DeleteRemovesExactlyThatId ==
    [][/\ (ev'.op = "deleteTodoOk") =>
            \E r \in deletes \ deletes' : todos' = Without(todos, r.id)
       /\ (ev'.op = "deleteTodoFail") => (todos' = todos)]_vars

\* the middle one of three tasks was deleted
C10_Witness ==
    /\ ev.op = "deleteTodoOk"
    /\ Len(todos) = 2
    /\ todos[1].id = 3
    /\ todos[2].id = 1

----------------------------------------------------------------------------
(* The progress indicator, over a backend that already stores tasks *)

\* the most tasks the backend stores when the page is opened
MaxStored == 8
\* the most requests sent after the load's GET
MaxListOps == 1

\* a task created in an earlier visit
StoredTask(id, isDone) ==
    [todoText |-> <<"a">>,
     category |-> "work",
     priority |-> "medium",
     deadline |-> null,
     color    |-> categoryBaseColor["work"],
     isDone   |-> isDone,
     id       |-> id,
     updatedAt |-> 0]

\* App after construction, the backend storing n tasks of which d are done
StoredInit ==
    /\ \E n \in 0..MaxStored : \E d \in 0..n :
          /\ db = [i \in 1..n |-> StoredTask(i, i <= d)]
          /\ nextId = n + 1
    /\ todos = <<>>
    /\ todoText = <<>>
    /\ category = "work"
    /\ priority = "medium"
    /\ deadline = ""
    /\ loading = FALSE
    /\ getReq = [st |-> "sent", data |-> <<>>]
    /\ posts = {}
    /\ patches = {}
    /\ deletes = {}
    /\ nReq = 0
    /\ race = [i \in 1..(MaxStored + MaxListOps) |-> NoRace]
    /\ ev = Event("mount", FALSE, TRUE)
    /\ open = FALSE
    /\ cal = NoCal
    /\ progress = progressMemo(todos)
    /\ hist = NoHist
    /\ now = DefaultNow
    /\ tz = DefaultTz
    /\ fnIn = NoArgs
    /\ fnOut = NoArgs

\* the cards clicked: the first and the last of the list
CardInputs(list) == {1, Len(list)} \cap DOMAIN list

\* the load and the three flows, MaxListOps requests in all after the GET
StoredNext ==
    \/ \E t \in PlainTextInputs : SetTodoText(t)
    \/ ServeGet
    \/ fetchTodosOk
    \/ fetchTodosFail
    \/ addTodo /\ nReq' <= MaxListOps
    \/ \E r \in posts : ServePost(r)
    \/ \E r \in posts : addTodoOk(r)
    \/ \E r \in posts : addTodoFail(r)
    \/ \E i \in CardInputs(todos) : toggleDone(i) /\ nReq' <= MaxListOps
    \/ \E r \in patches : ServePatch(r)
    \/ \E r \in patches : toggleDoneOk(r)
    \/ \E r \in patches : toggleDoneFail(r)
    \/ \E i \in CardInputs(todos), confirmed \in BOOLEAN :
          deleteTodo(i, confirmed) /\ nReq' <= MaxListOps
    \/ \E r \in deletes : ServeDelete(r)
    \/ \E r \in deletes : deleteTodoOk(r)
    \/ \E r \in deletes : deleteTodoFail(r)

StoredSpec == StoredInit /\ [][StoredNext]_vars

RECURSIVE NumDone(_)
\* the number of entries of the list that are done
NumDone(list) ==
    IF list = <<>> THEN 0
    ELSE (IF Head(list).isDone THEN 1 ELSE 0) + NumDone(Tail(list))

\* whether p is an integer nearest to num / den (either one at a half)
Nearest(p, num, den) ==
    /\ 2 * (p * den - num) <= den
    /\ 2 * (num - p * den) <= den

\* C21: in every reachable state, so after every load, create, toggle and
\* delete, the progress value is 0 for the empty list and otherwise an
\* integer nearest to 100 * done / total; it lies in 0..100 and is 100 when
\* every task of a list that is not empty is done.
C21_ProgressIsRoundedShare ==
    /\ progress \in 0..100
    /\ (Len(todos) = 0) => (progress = 0)
    /\ (Len(todos) > 0) => Nearest(progress, 100 * NumDone(todos), Len(todos))
    /\ (Len(todos) > 0 /\ NumDone(todos) = Len(todos)) => (progress = 100)

\* a toggle to done was confirmed and two of the three tasks are now done
C21_Witness ==
    /\ ev.op = "toggleDoneOk"
    /\ Len(todos) = 3
    /\ NumDone(todos) = 2
    /\ progress = 67

----------------------------------------------------------------------------
(* The life of a task in the list *)

\* C22: a task that a successful create has put into the list is in the
\* list until a confirmed delete of its id succeeds; no other step takes it
\* out, neither the load resolving after the create nor a toggle resolving.
C22_CreatedTaskStays ==
    \A id \in hist.created : HasId(todos, id)

\* C23: after a confirmed delete of an id has succeeded and removed the
\* entry, the list never holds an entry of that id again, whatever response
\* arrives later.
C23_DeletedTaskStaysOut ==
    \A id \in hist.deleted : ~HasId(todos, id)

----------------------------------------------------------------------------
(* The overdue flag of a card *)

\* the deadlines of the cards looked at, and the clocks they are looked at
\* under: instants around 15 January 2025, in three time zones
CardDeadlines == {null, "2025-01-14", "2025-01-15", "2025-01-16"}
ClockInputs ==
    {MakeDay(2025, 0, 15) * HoursPerDay + h :
        h \in {0 - 30, 0 - 6, 0 - 1, 0, 1, 12, 18, 23, 30}}
ZoneInputs == {0 - 5, 0, 7}

\* isOverdue as the card computes it: two instants are compared
isOverdue(cardDeadline, isDone) ==
    IF cardDeadline # null /\ cardDeadline # ""
    THEN ParseDate(cardDeadline) < now /\ ~isDone
    ELSE FALSE

OverdueInit ==
    /\ AppInit
    /\ now \in ClockInputs
    /\ tz \in ZoneInputs
    /\ fnIn \in [deadline : CardDeadlines, isDone : BOOLEAN]
    /\ fnOut = NoArgs

\* a card is rendered
renderCard ==
    /\ fnOut = NoArgs
    /\ fnOut' = [isOverdue |-> isOverdue(fnIn.deadline, fnIn.isDone)]
    /\ UNCHANGED <<todos, draft, loading, getReq, posts, patches, deletes,
                   nReq, server, race, ev, widget, clock, fnIn,
                   progress, hist>>

OverdueSpec == OverdueInit /\ [][renderCard]_vars

\* the calendar date a date-only string names, as a day number
DateOf(s) == ParseDate(s) \div HoursPerDay

\* C11: a card is flagged overdue exactly when it has a deadline whose
\* calendar date is strictly before today's calendar date, in the browser's
\* time zone, and the task is not done
C11_OverdueIffPastDateAndNotDone ==
    fnOut # NoArgs =>
        (fnOut.isOverdue <=>
            /\ fnIn.deadline # null
            /\ DateOf(fnIn.deadline) < LocalDay(now)
            /\ ~fnIn.isDone)

----------------------------------------------------------------------------
(* The date field (DateField) and the month grid in its popover (Calendar) *)

\* how many months back from today's month the user pages and picks
MaxMonthsBack == 1
\* how many tasks the user submits while using the date field
MaxSubmits == 1

\* the weekday of the 1st of month m (0..11) of year y, and the month's length
start(y, m) == getDay(NewDate(y, m, 1))
daysIn(y, m) == getDate(NewDate(y, m + 1, 0))

\* targetCells taking five weeks only when they are not full
targetCells_StrictlyLess(y, m) == IF start(y, m) + daysIn(y, m) < 35 THEN 35 ELSE 42

\* the size of the grid of the month: five weeks if they hold it, else six
targetCells(y, m) == IF start(y, m) + daysIn(y, m) <= 35 THEN 35 ELSE 42

\* cells with the leading days pushed from the last backwards
cells_LeadingDescending(y, m) ==
    LET prevMonth == IF m = 0 THEN 11 ELSE m - 1
        prevYear == IF m = 0 THEN y - 1 ELSE y
        prevDays == getDate(NewDate(prevYear, prevMonth + 1, 0))
        nextMonth == IF m = 11 THEN 0 ELSE m + 1
        nextYear == IF m = 11 THEN y + 1 ELSE y
        arrLength == start(y, m) + daysIn(y, m)
    IN [k \in 1..targetCells(y, m) |->
           IF k <= start(y, m)
           THEN LET d == prevDays - (k - 1)
                IN [s |-> toIsoDate(NewDate(prevYear, prevMonth, d)),
                    d |-> d, inMonth |-> FALSE]
           ELSE IF k <= arrLength
           THEN LET d == k - start(y, m)
                IN [s |-> toIsoDate(NewDate(y, m, d)), d |-> d,
                    inMonth |-> TRUE]
           ELSE LET d == k - arrLength
                IN [s |-> toIsoDate(NewDate(nextYear, nextMonth, d)),
                    d |-> d, inMonth |-> FALSE]]

\* the cells of the grid of month m (0..11) of year y, in display order:
\* the three loops of the code, cell by cell
cells(y, m) ==
    LET prevMonth == IF m = 0 THEN 11 ELSE m - 1
        prevYear == IF m = 0 THEN y - 1 ELSE y
        prevDays == getDate(NewDate(prevYear, prevMonth + 1, 0))
        nextMonth == IF m = 11 THEN 0 ELSE m + 1
        nextYear == IF m = 11 THEN y + 1 ELSE y
        arrLength == start(y, m) + daysIn(y, m)
    IN [k \in 1..targetCells(y, m) |->
           IF k <= start(y, m)
           THEN LET d == prevDays - (start(y, m) - k)
                IN [s |-> toIsoDate(NewDate(prevYear, prevMonth, d)),
                    d |-> d, inMonth |-> FALSE]
           ELSE IF k <= arrLength
           THEN LET d == k - start(y, m)
                IN [s |-> toIsoDate(NewDate(y, m, d)), d |-> d,
                    inMonth |-> TRUE]
           ELSE LET d == k - arrLength
                IN [s |-> toIsoDate(NewDate(nextYear, nextMonth, d)),
                    d |-> d, inMonth |-> FALSE]]

\* the highlights of a cell
isToday(s) == s = toIsoDate(now)
isSelected(s) == IF deadline # "" THEN s = toIsoDate(ParseDate(deadline)) ELSE FALSE

\* the month the two arrows lead to
goPrevView(v) == IF v.m = 0 THEN [y |-> v.y - 1, m |-> 11] ELSE [y |-> v.y, m |-> v.m - 1]
goNextView(v) == IF v.m = 11 THEN [y |-> v.y + 1, m |-> 0] ELSE [y |-> v.y, m |-> v.m + 1]

\* the months the model pages through and picks days in: the month of
\* DefaultNow and the ones before it
DefaultMonth ==
    YearFromDay(DefaultNow \div HoursPerDay) * 12
        + MonthFromDay(DefaultNow \div HoursPerDay)
InRange(v) ==
    LET away == (v.y * 12 + v.m) - DefaultMonth
    IN 0 - MaxMonthsBack <= away /\ away <= 0

\* the cells the user clicks: the first, and the last of the fifth week
CellInputs == {1, 35}

\* the browsers the date field runs in
WidgetZones == {0 - 5, 7}

WidgetInit ==
    /\ AppInit
    /\ now = DefaultNow
    /\ tz \in WidgetZones
    /\ fnIn = NoArgs
    /\ fnOut = NoArgs

\* what a click in the date field leaves alone
formRest == <<todos, todoText, category, priority, loading, getReq, posts,
              patches, deletes, nReq, server, race>>

\* clickField toggling the popover whether or not the field is disabled
clickField_IgnoresDisabled ==
    /\ open' = ~open
    /\ cal' = CalendarAfter(~open, loading, deadline)
    /\ ev' = Event("clickField", FALSE, FALSE)
    /\ UNCHANGED <<progress, hist>>
    /\ UNCHANGED <<formRest, deadline, clock, pure>>

\* a click on the read-only input: toggles the popover unless disabled
clickField ==
    /\ open' = IF ~loading THEN ~open ELSE open
    /\ cal' = CalendarAfter(open', loading, deadline)
    /\ ev' = Event("clickField", FALSE, FALSE)
    /\ UNCHANGED <<progress, hist>>
    /\ UNCHANGED <<formRest, deadline, clock, pure>>

\* a click outside the widget: the window listener closes the popover
clickOutside ==
    /\ open' = FALSE
    /\ cal' = CalendarAfter(FALSE, loading, deadline)
    /\ ev' = Event("clickOutside", FALSE, FALSE)
    /\ UNCHANGED <<progress, hist>>
    /\ UNCHANGED <<formRest, deadline, clock, pure>>

\* Calendar's onChange as DateField wraps it: commit v, close the popover
commit(v) ==
    /\ deadline' = v
    /\ open' = FALSE
    /\ cal' = CalendarAfter(FALSE, loading, v)

\* a click on cell i of the grid
selectDay(i) ==
    /\ Shown(open, loading)
    /\ InRange(cal)
    /\ i <= targetCells(cal.y, cal.m)
    /\ commit(cells(cal.y, cal.m)[i].s)
    /\ ev' = Event("selectDay", FALSE, FALSE)
    /\ UNCHANGED <<progress, hist>>
    /\ UNCHANGED <<formRest, clock, pure>>

\* a click on the today button
clickToday ==
    /\ Shown(open, loading)
    /\ commit(toIsoDate(now))
    /\ ev' = Event("clickToday", FALSE, FALSE)
    /\ UNCHANGED <<progress, hist>>
    /\ UNCHANGED <<formRest, clock, pure>>

\* a click on the clear button
clickClear ==
    /\ Shown(open, loading)
    /\ commit("")
    /\ ev' = Event("clickClear", FALSE, FALSE)
    /\ UNCHANGED <<progress, hist>>
    /\ UNCHANGED <<formRest, clock, pure>>

\* a click on the close button: it has no handler, and the popover keeps
\* the click from the window listener
clickClose ==
    /\ Shown(open, loading)
    /\ ev' = Event("clickClose", FALSE, FALSE)
    /\ UNCHANGED <<progress, hist>>
    /\ UNCHANGED <<formRest, deadline, widget, clock, pure>>

\* goNext stepping the month without rolling the year over
goNext_NoRollover ==
    /\ Shown(open, loading)
    /\ InRange(goNextView(cal))
    /\ cal' = [cal EXCEPT !.m = @ + 1]
    /\ ev' = Event("goNext", FALSE, FALSE)
    /\ UNCHANGED <<progress, hist>>
    /\ UNCHANGED <<formRest, deadline, open, clock, pure>>

\* a click on the left arrow
goPrev ==
    /\ Shown(open, loading)
    /\ InRange(goPrevView(cal))
    /\ cal' = goPrevView(cal)
    /\ ev' = Event("goPrev", FALSE, FALSE)
    /\ UNCHANGED <<progress, hist>>
    /\ UNCHANGED <<formRest, deadline, open, clock, pure>>

\* a click on the right arrow
goNext ==
    /\ Shown(open, loading)
    /\ InRange(goNextView(cal))
    /\ cal' = goNextView(cal)
    /\ ev' = Event("goNext", FALSE, FALSE)
    /\ UNCHANGED <<progress, hist>>
    /\ UNCHANGED <<formRest, deadline, open, clock, pure>>

\* WidgetSpec: the date field, and the create flow that disables it and
\* resets its value
WidgetNext ==
    \/ \E t \in PlainTextInputs : SetTodoText(t)
    \/ addTodo /\ nReq' <= MaxSubmits
    \/ \E r \in posts : ServePost(r)
    \/ \E r \in posts : addTodoOk(r)
    \/ \E r \in posts : addTodoFail(r)
    \/ clickField
    \/ clickOutside
    \/ \E i \in CellInputs : selectDay(i)
    \/ clickToday
    \/ clickClear
    \/ clickClose
    \/ goPrev
    \/ goNext

WidgetSpec == WidgetInit /\ [][WidgetNext]_vars

----------------------------------------------------------------------------
(* The date field *)

\* C12: the date field starts Closed; the popover opens only by a click on
\* the field while the field is not disabled; while the field is disabled
\* the popover is not rendered
C12_OpensOnlyByClickWhenEnabled ==
    [][/\ ev.op = "mount" => ~open
       /\ (~open /\ open') => (ev'.op = "clickField" /\ ~loading)
       /\ loading' => cal' = NoCal]_vars

\* the field was clicked while disabled and stayed Closed
C12_Witness ==
    /\ ev.op = "clickField"
    /\ loading
    /\ ~open

\* C13: while the popover is Open, a click on the close control closes it
\* and leaves the committed value unchanged
C13_CloseControlCloses ==
    [][ev'.op = "clickClose" => (~open' /\ deadline' = deadline)]_vars

\* C14: the today control commits today's ISO date and leaves the popover
\* Open; a day cell commits its ISO string and clear commits the empty
\* string, and both close the popover
C14_TodayKeepsOpen ==
    [][/\ ev'.op = "clickToday" => (deadline' = toIsoDate(now) /\ open')
       /\ ev'.op = "selectDay" =>
              /\ \E i \in DOMAIN cells(cal.y, cal.m) :
                     deadline' = cells(cal.y, cal.m)[i].s
              /\ ~open'
       /\ ev'.op = "clickClear" => (deadline' = "" /\ ~open')]_vars

DigitChars == {"0", "1", "2", "3", "4", "5", "6", "7", "8", "9"}

\* s is a zero-padded YYYY-MM-DD string that names a day of the calendar
IsCanonicalDate(s) ==
    /\ Len(s) = 10
    /\ \A k \in {1, 2, 3, 4, 6, 7, 9, 10} : SubSeq(s, k, k) \in DigitChars
    /\ SubSeq(s, 5, 5) = "-"
    /\ SubSeq(s, 8, 8) = "-"
    /\ LET y == ParseDigits(SubSeq(s, 1, 4))
           m == ParseDigits(SubSeq(s, 6, 7))
           d == ParseDigits(SubSeq(s, 9, 10))
       IN /\ m \in 1..12
          /\ d >= 1
          /\ d <= DaysBeforeMonth(y, m) - DaysBeforeMonth(y, m - 1)

C18_MonthNavigation ==
    [][/\ ev'.op = "goNext" =>
              /\ cal' = IF cal.m = 11 THEN [y |-> cal.y + 1, m |-> 0]
                        ELSE [y |-> cal.y, m |-> cal.m + 1]
              /\ goPrevView(cal') = cal
       /\ ev'.op = "goPrev" =>
              /\ cal' = IF cal.m = 0 THEN [y |-> cal.y - 1, m |-> 11]
                        ELSE [y |-> cal.y, m |-> cal.m - 1]
              /\ goNextView(cal') = cal
       /\ ev'.op \in {"goNext", "goPrev"} =>
              /\ deadline' = deadline
              /\ open' = open
              /\ Shown(open', loading')
       /\ cal'.m \in 0..11]_vars

\* with a date committed, the view was paged back from January to December
C18_Witness ==
    /\ ev.op = "goPrev"
    /\ cal.m = 11
    /\ deadline # ""

\* C19: a committed date parsed as the program parses it and formatted by
\* toIsoDate is itself again, so it is the cell the grid marks as selected,
\* and the popover reopens on the month of that date
C19_RoundTrip ==
    deadline # "" =>
        /\ toIsoDate(ParseDate(deadline)) = deadline
        /\ isSelected(deadline)
        /\ (ev.op = "clickField" /\ open) =>
               cal = [y |-> ParseDigits(SubSeq(deadline, 1, 4)),
                      m |-> ParseDigits(SubSeq(deadline, 6, 7)) - 1]

----------------------------------------------------------------------------
(* The month grid, for every month of 28 years: every weekday of 1 January, *)
(* in leap and in common years                                              *)

GridYears == 2000..2027

GridInit ==
    /\ AppInit
    /\ now = DefaultNow
    /\ tz \in ZoneInputs
    /\ fnIn \in [y : GridYears, m : 0..11]
    /\ fnOut = NoArgs

\* the calendar of month fnIn.m of year fnIn.y is rendered
renderCalendar ==
    /\ fnOut = NoArgs
    /\ fnOut' = cells(fnIn.y, fnIn.m)
    /\ UNCHANGED <<todos, draft, loading, getReq, posts, patches, deletes,
                   nReq, server, race, ev, widget, clock, fnIn,
                   progress, hist>>

GridSpec == GridInit /\ [][renderCalendar]_vars

\* the day number of the 1st of the month rendered, the weekday it falls
\* on (its number of leading cells), and the number of days of the month
FirstOfMonth == MakeDay(fnIn.y, fnIn.m, 1)
Leading == WeekDay(FirstOfMonth)
MonthLength == MakeDay(fnIn.y, fnIn.m + 1, 1) - FirstOfMonth

\* C16: the grid has 35 cells when the leading cells and the days of the
\* month are at most 35 together, and 42 cells otherwise
C16_GridSize ==
    fnOut # NoArgs =>
        Len(fnOut) = IF Leading + MonthLength <= 35 THEN 35 ELSE 42

\* a month that fills five weeks exactly
C16_Witness ==
    /\ fnOut # NoArgs
    /\ Leading + MonthLength = 35
    /\ Len(fnOut) = 35

\* C17: the grid starts on the Sunday on or before the 1st and each cell is
\* the day after the one before it; the cells before the 1st and after the
\* last day are not in the month, those between are, and each cell shows
\* the day of the month of its date
C17_GridLayout ==
    fnOut # NoArgs =>
        /\ WeekDay(DateOf(fnOut[1].s)) = 0
        /\ \A k \in DOMAIN fnOut :
               /\ DateOf(fnOut[k].s) = FirstOfMonth - Leading + k - 1
               /\ fnOut[k].inMonth <=> (Leading < k /\ k <= Leading + MonthLength)
               /\ fnOut[k].d = DateFromDay(FirstOfMonth - Leading + k - 1)
               /\ (k > Leading + MonthLength) => fnOut[k].d = k - Leading - MonthLength
               /\ fnOut[k].inMonth => fnOut[k].d = k - Leading
               /\ IsCanonicalDate(fnOut[k].s)

\* a January whose grid starts with days of the December before
C17_Witness ==
    /\ fnOut # NoArgs
    /\ fnIn.m = 0
    /\ Len(fnOut) >= 35
    /\ ~fnOut[1].inMonth
    /\ ~fnOut[2].inMonth

----------------------------------------------------------------------------
(* Card colors.  The code computes in double precision; here a lightness   *)
(* is an integer number of 1/1020ths, and a hue or a saturation an exact   *)
(* fraction num/den.  No lightness the code rounds lies at a rounding tie, *)
(* so its rounded percentage is the same in both.  Hues and saturations do *)
(* lie at ties (#8B5FBF is at 267.5 degrees, 267 in double precision), so  *)
(* they are kept as the fractions that the code rounds.                    *)

DEFAULT_HEX == "#6B7280"

HexChars ==
    {"0", "1", "2", "3", "4", "5", "6", "7", "8", "9",
     "a", "b", "c", "d", "e", "f", "A", "B", "C", "D", "E", "F"}

\* the value of a hexadecimal digit
HexVal(c) ==
    CASE c \in DigitChars -> Digit(c)
      [] c \in {"a", "A"} -> 10 [] c \in {"b", "B"} -> 11
      [] c \in {"c", "C"} -> 12 [] c \in {"d", "D"} -> 13
      [] c \in {"e", "E"} -> 14 [] c \in {"f", "F"} -> 15

\* String.prototype.trim on a string
RECURSIVE trimString(_)
trimString(s) ==
    IF Len(s) = 0 THEN s
    ELSE IF SubSeq(s, 1, 1) = " " THEN trimString(SubSeq(s, 2, Len(s)))
    ELSE IF SubSeq(s, Len(s), Len(s)) = " "
         THEN trimString(SubSeq(s, 1, Len(s) - 1))
    ELSE s

normalizeHex(input) ==
    IF input = null \/ input = "" THEN DEFAULT_HEX
    ELSE LET trimmed == trimString(input)
             bare == IF Len(trimmed) > 0 /\ SubSeq(trimmed, 1, 1) = "#"
                     THEN SubSeq(trimmed, 2, Len(trimmed)) ELSE trimmed
             hex == IF Len(bare) = 3
                    THEN SubSeq(bare, 1, 1) \o SubSeq(bare, 1, 1)
                             \o SubSeq(bare, 2, 2) \o SubSeq(bare, 2, 2)
                             \o SubSeq(bare, 3, 3) \o SubSeq(bare, 3, 3)
                    ELSE bare
         IN IF Len(hex) = 6 /\ \A k \in 1..6 : SubSeq(hex, k, k) \in HexChars
            THEN "#" \o hex
            ELSE DEFAULT_HEX

\* parseInt(hex.slice(from, from + 2), 16), from counted from 0
Channel(hex, from) ==
    16 * HexVal(SubSeq(hex, from + 1, from + 1))
        + HexVal(SubSeq(hex, from + 2, from + 2))

Max3(a, b, c) == IF a >= b /\ a >= c THEN a ELSE IF b >= c THEN b ELSE c
Min3(a, b, c) == IF a <= b /\ a <= c THEN a ELSE IF b <= c THEN b ELSE c

\* h and s as fractions of 1, l in 1/1020ths; r, g, b are the channels
\* times 255
hexToHsl(hexInput) ==
    LET hex == normalizeHex(hexInput)
        r == Channel(hex, 1)
        g == Channel(hex, 3)
        b == Channel(hex, 5)
        max == Max3(r, g, b)
        min == Min3(r, g, b)
        d == max - min
        l == 2 * (max + min)
    IN IF max = min
       THEN [h |-> [num |-> 0, den |-> 1], s |-> [num |-> 0, den |-> 1], l |-> l]
       ELSE [h |-> [num |-> IF max = r THEN (g - b) + (IF g < b THEN 6 * d ELSE 0)
                            ELSE IF max = g THEN (b - r) + 2 * d
                            ELSE (r - g) + 4 * d,
                    den |-> 6 * d],
             s |-> [num |-> d,
                    den |-> IF l > 510 THEN 510 - max - min ELSE max + min],
             l |-> l]

\* the three numbers of the hsl() string: the hue in turns and the
\* saturation as they are before rounding, the lightness in percent
hslToCss(hsl) ==
    [h |-> hsl.h, s |-> hsl.s, l |-> Round(hsl.l * 100, 1020)]

\* the lightness offsets of the priorities, in 1/1020ths: -0.1, 0, +0.15
delta == [high |-> 0 - 102, medium |-> 0, low |-> 153]

IntMax(a, b) == IF a >= b THEN a ELSE b
IntMin(a, b) == IF a <= b THEN a ELSE b

\* colorByPriority without the clamp
colorByPriority_NoClamp(base, p) ==
    LET hsl == hexToHsl(base)
        l == hsl.l + delta[p]
    IN hslToCss([hsl EXCEPT !.l = l])

colorByPriority(base, p) ==
    LET hsl == hexToHsl(base)
        l == IntMin(918, IntMax(204, hsl.l + delta[p]))
    IN hslToCss([hsl EXCEPT !.l = l])

\* the colors the cards are given: hex is the color as stored, rgb the
\* channels of the color it stands for (those of DEFAULT_HEX when hex is
\* null, empty or malformed)
ColorInputs ==
    {[hex |-> "#8B5FBF", rgb |-> <<139, 95, 191>>],
     [hex |-> "#F472B6", rgb |-> <<244, 114, 182>>],
     [hex |-> "#34D399", rgb |-> <<52, 211, 153>>],
     [hex |-> "#60A5FA", rgb |-> <<96, 165, 250>>],
     [hex |-> "#FBBF24", rgb |-> <<251, 191, 36>>],
     [hex |-> "#6B7280", rgb |-> <<107, 114, 128>>],
     [hex |-> null, rgb |-> <<107, 114, 128>>],
     [hex |-> "", rgb |-> <<107, 114, 128>>],
     [hex |-> "#12345", rgb |-> <<107, 114, 128>>],
     [hex |-> "#GGGGGG", rgb |-> <<107, 114, 128>>],
     [hex |-> "red", rgb |-> <<107, 114, 128>>],
     [hex |-> "#1234567", rgb |-> <<107, 114, 128>>],
     [hex |-> "#", rgb |-> <<107, 114, 128>>],
     [hex |-> "#fff", rgb |-> <<255, 255, 255>>],
     [hex |-> "000", rgb |-> <<0, 0, 0>>],
     [hex |-> " #aBc ", rgb |-> <<170, 187, 204>>],
     [hex |-> "336699", rgb |-> <<51, 102, 153>>],
     [hex |-> "#1A1A1A", rgb |-> <<26, 26, 26>>],
     [hex |-> "#404040", rgb |-> <<64, 64, 64>>],
     [hex |-> "#4D4D4D", rgb |-> <<77, 77, 77>>],
     [hex |-> "#C0C0C0", rgb |-> <<192, 192, 192>>],
     [hex |-> "#F0F8FF", rgb |-> <<240, 248, 255>>],
     [hex |-> "#ff0000", rgb |-> <<255, 0, 0>>],
     [hex |-> "#00FF7F", rgb |-> <<0, 255, 127>>]}

ColorInit ==
    /\ AppInit
    /\ now = DefaultNow
    /\ tz = DefaultTz
    /\ fnIn \in [base : ColorInputs, p : Priority]
    /\ fnOut = NoArgs

\* the background of a card is computed
renderColor ==
    /\ fnOut = NoArgs
    /\ fnOut' = colorByPriority(fnIn.base.hex, fnIn.p)
    /\ UNCHANGED <<todos, draft, loading, getReq, posts, patches, deletes,
                   nReq, server, race, ev, widget, clock, fnIn,
                   progress, hist>>

ColorSpec == ColorInit /\ [][renderColor]_vars

\* the lightness of a color in hundredths of a percent, rounded down, and
\* the offsets of the priorities in the same unit
BaseLightness(rgb) ==
    ((Max3(rgb[1], rgb[2], rgb[3]) + Min3(rgb[1], rgb[2], rgb[3])) * 10000)
        \div 510
Offset(p) == CASE p = "high" -> 0 - 1000 [] p = "medium" -> 0 [] p = "low" -> 1500

\* a lightness in hundredths of a percent, clamped and rounded to percent
Displayed(l) == (IntMin(9000, IntMax(2000, l)) + 50) \div 100

\* C20: the lightness shown is the lightness of the base color, or of the
\* default gray when the base is null, empty or malformed, plus the offset
\* of the priority (high -0.10, medium 0, low +0.15), clamped to
\* [0.20, 0.90]; so it is not smaller for low than for medium, nor for
\* medium than for high, and hue and saturation are those of every priority
C20_LightnessByPriority ==
    fnOut # NoArgs =>
        LET hex == fnIn.base.hex
            high == colorByPriority(hex, "high")
            medium == colorByPriority(hex, "medium")
            low == colorByPriority(hex, "low")
        IN /\ fnOut.l = Displayed(BaseLightness(fnIn.base.rgb) + Offset(fnIn.p))
           /\ 20 <= fnOut.l /\ fnOut.l <= 90
           /\ high.l <= medium.l /\ medium.l <= low.l
           /\ \A c \in {high, medium, low} : c.h = fnOut.h /\ c.s = fnOut.s

\* a malformed color at high priority: the gray, darkened
C20_Witness ==
    /\ fnOut # NoArgs
    /\ fnIn.base.hex = "#GGGGGG"
    /\ fnIn.p = "high"
    /\ fnOut.l = 36

====
